---------------------------- MODULE Spec2Model ----------------------------
(***************************************************************************)
(* A model of the toy browser engine: the CSS cascade (css.rs, style.rs),  *)
(* the selector part of the rule parser (parser.rs) and the layout tree    *)
(* construction and block layout (boxes.rs).                               *)
(*                                                                         *)
(* Conventions                                                             *)
(*  - Option<T> is a sequence of length 0 (None) or 1 (Some(x)), so that   *)
(*    `opt.iter().count()` is Len(opt).                                    *)
(*  - A HashMap is a function whose DOMAIN is the set of its keys.         *)
(*  - A reference (&Rule, &StyledNode) is the index / id of its target.    *)
(*  - An f32 is an integer number of half pixels (see Px); every length    *)
(*    the model feeds in is a whole number of pixels, and the only         *)
(*    division of the code is by 2.0, so the arithmetic is exact.          *)
(*  - panic!() is the distinguished result Panic, propagated by callers.   *)
(***************************************************************************)
EXTENDS Integers, Sequences, FiniteSets, TLC

VARIABLES
    pc,          \* position in the pipeline
    stylesheet,  \* css::Stylesheet, [rules |-> Seq(Rule)]
    elem,        \* the ElementData last handed to the cascade
    matched,     \* result of css::matching_rules
    values,      \* result of style::specified_values
    styled,      \* the StyledNode tree handed to build_layout_tree
    root,        \* the LayoutBox tree (boxes::build_layout_tree, then layout)
    viewport     \* the containing block handed to the root's layout

vars == <<pc, stylesheet, elem, matched, values, styled, root, viewport>>

\* ------------------------------------------------------------------ bounds
MaxRules == 2
MaxSelectors == 2
MaxNodes == 5
MaxLayoutNodes == 3

\* ------------------------------------------------------------------ Option
None == <<>>
Some(x) == <<x>>

\* ------------------------------------------------------------------ css.rs
Keyword(s) == <<"Keyword", s>>
Length(v, u) == <<"Length", v, u>>

SimpleSelector(tag_name, id, class) ==
    [tag_name |-> tag_name, id |-> id, class |-> class]

Declaration(name, value) == [name |-> name, value |-> value]

Rule(selectors, declarations) ==
    [selectors |-> selectors, declarations |-> declarations]

Stylesheet_new == [rules |-> <<>>]

\* Selector::specificity: (id count, class count, tag count)
specificity(selector) ==
    LET a == Len(selector.id)
        b == Len(selector.class)
        c == Len(selector.tag_name)
    IN  <<a, b, c>>

\* Ord for the tuple Specificity: lexicographic. -1 Less, 0 Equal, 1 Greater.
cmp(a, b) ==
    IF a[1] # b[1] THEN (IF a[1] < b[1] THEN -1 ELSE 1)
    ELSE IF a[2] # b[2] THEN (IF a[2] < b[2] THEN -1 ELSE 1)
    ELSE IF a[3] # b[3] THEN (IF a[3] < b[3] THEN -1 ELSE 1)
    ELSE 0

Elements(s) == {s[i] : i \in 1..Len(s)}

\* slice::sort_by, a stable sort: each element is inserted after every
\* element already placed that does not compare Greater than it. The
\* closure is the function compare[a, b] over the elements of s.
RECURSIVE sort_by(_, _)
sort_by(s, compare) ==
    IF Len(s) <= 1 THEN s
    ELSE LET front == sort_by(SubSeq(s, 1, Len(s) - 1), compare)
             x == s[Len(s)]
             after == {i \in 1..Len(front) : compare[front[i], x] = 1}
             pos == IF after = {} THEN Len(front) + 1
                    ELSE CHOOSE i \in after : \A j \in after : i <= j
         IN  SubSeq(front, 1, pos - 1) \o <<x>> \o SubSeq(front, pos, Len(front))

\* ElementData::id: the value of the "id" attribute, if any
ElementData_id(e) ==
    IF "id" \in DOMAIN e.attributes THEN Some(e.attributes["id"]) ELSE None

\* ElementData::classes: the set of the words of the "class" attribute
ElementData_classes(e) ==
    IF "class" \in DOMAIN e.attributes
    THEN {e.attributes["class"][i] : i \in 1..Len(e.attributes["class"])}
    ELSE {}

matches_simple_selector(e, selector) ==
    IF \E i \in 1..Len(selector.tag_name) : e.tag_name # selector.tag_name[i]
    THEN FALSE
    ELSE IF \E i \in 1..Len(selector.id) : ElementData_id(e) # Some(selector.id[i])
    THEN FALSE
    ELSE LET elem_classes == ElementData_classes(e)
         IN  IF \E i \in 1..Len(selector.class) : selector.class[i] \notin elem_classes
             THEN FALSE
             ELSE TRUE

matches(e, selector) == matches_simple_selector(e, selector)

\* match_rule: the first matching selector's specificity with the rule
\* (a reference: its index r in the stylesheet), or None
match_rule(e, sheet, r) ==
    LET rule == sheet.rules[r]
        found == {i \in 1..Len(rule.selectors) : matches(e, rule.selectors[i])}
    IN  IF found = {} THEN None
        ELSE LET first == CHOOSE i \in found : \A j \in found : i <= j
             IN  Some(<<specificity(rule.selectors[first]), r>>)

RECURSIVE filter_map_rules(_, _, _)
filter_map_rules(e, sheet, r) ==
    IF r > Len(sheet.rules) THEN <<>>
    ELSE match_rule(e, sheet, r) \o filter_map_rules(e, sheet, r + 1)

matching_rules(e, sheet) == filter_map_rules(e, sheet, 1)

\* ------------------------------------------------------------------ parser.rs
\* parse_selectors without its sort: the selectors stay in source order
parse_selectors_unsorted(source) == source

\* Parser::parse_selectors: the selectors in source order, then sorted
\* descending by specificity
parse_selectors(source) ==
    sort_by(source, [a \in Elements(source), b \in Elements(source) |->
                        cmp(specificity(b), specificity(a))])

parse_rule(source, declarations) ==
    Rule(parse_selectors(source), declarations)

\* ------------------------------------------------------------------ style.rs
HashMap_new == [n \in {} |-> None]

HashMap_insert(m, k, v) ==
    [n \in DOMAIN m \cup {k} |-> IF n = k THEN v ELSE m[n]]

RECURSIVE insert_declarations(_, _, _)
insert_declarations(m, declarations, i) ==
    IF i > Len(declarations) THEN m
    ELSE insert_declarations(
             HashMap_insert(m, declarations[i].name, declarations[i].value),
             declarations, i + 1)

RECURSIVE insert_rules(_, _, _, _)
insert_rules(m, sheet, rules, i) ==
    IF i > Len(rules) THEN m
    ELSE insert_rules(
             insert_declarations(m, sheet.rules[rules[i][2]].declarations, 1),
             sheet, rules, i + 1)

\* specified_values without its sort: the rules fold in stylesheet order
specified_values_unsorted(e, sheet) ==
    insert_rules(HashMap_new, sheet, matching_rules(e, sheet), 1)

specified_values(e, sheet) ==
    LET found == matching_rules(e, sheet)
        rules == sort_by(found, [a \in Elements(found), b \in Elements(found) |->
                                    cmp(a[1], b[1])])
    IN  insert_rules(HashMap_new, sheet, rules, 1)

\* StyledNode: node is the identity of the styled node (what a
\* &StyledNode points at)
StyledNode(node, values_map, children) ==
    [node |-> node, specified_values |-> values_map, children |-> children]

\* StyledNode::value: the specified value of the property, if any
StyledNode_value(n, name) ==
    IF name \in DOMAIN n.specified_values
    THEN Some(n.specified_values[name]) ELSE None

\* StyledNode::lookup: the longhand, else the shorthand, else the default
StyledNode_lookup(n, name, fallback_name, default) ==
    IF StyledNode_value(n, name) # None THEN StyledNode_value(n, name)[1]
    ELSE IF StyledNode_value(n, fallback_name) # None
    THEN StyledNode_value(n, fallback_name)[1]
    ELSE default

\* StyledNode::display: None only for the keyword none, Inline only for the
\* keyword inline, Block otherwise
StyledNode_display(n) ==
    LET v == StyledNode_value(n, "display")
    IN  IF v = Some(Keyword("none")) THEN "None"
        ELSE IF v = Some(Keyword("inline")) THEN "Inline"
        ELSE "Block"

\* ------------------------------------------------------------------ boxes.rs
Rect_default == [x |-> 0, y |-> 0, width |-> 0, height |-> 0]
EdgeSizes_default == [left |-> 0, right |-> 0, top |-> 0, bottom |-> 0]
Dimensions_default ==
    [content |-> Rect_default, padding |-> EdgeSizes_default,
     border |-> EdgeSizes_default, margin |-> EdgeSizes_default]

BlockNode(node) == <<"BlockNode", node>>
InlineNode(node) == <<"InlineNode", node>>
AnonymousBlock == <<"AnonymousBlock">>

LayoutBox_new(box_type) ==
    [dimensions |-> Dimensions_default, box_type |-> box_type, children |-> <<>>]

\* the outcome of a call that panicked instead of returning a box
Panic == [dimensions |-> Dimensions_default, box_type |-> <<"Panic">>, children |-> <<>>]

push(box, child) == [box EXCEPT !.children = Append(@, child)]

\* get_inline_container that never reuses the last anonymous child
get_inline_container_fresh(self) ==
    IF self.box_type[1] \in {"InlineNode", "AnonymousBlock"}
    THEN [box |-> self, at |-> 0]
    ELSE [box |-> push(self, LayoutBox_new(AnonymousBlock)),
          at |-> Len(self.children) + 1]

\* LayoutBox::get_inline_container: the box after the call, and where the
\* returned container is: 0 for the box itself, else the index of the child
get_inline_container(self) ==
    IF self.box_type[1] \in {"InlineNode", "AnonymousBlock"}
    THEN [box |-> self, at |-> 0]
    ELSE LET n == Len(self.children)
             pushed == IF n > 0 /\ self.children[n].box_type = AnonymousBlock
                       THEN self
                       ELSE push(self, LayoutBox_new(AnonymousBlock))
         IN  [box |-> pushed, at |-> Len(pushed.children)]

\* root.get_inline_container().children.push(child)
push_inline(self, child) ==
    LET c == get_inline_container(self)
    IN  IF c.at = 0 THEN push(c.box, child)
        ELSE [c.box EXCEPT !.children[c.at] = push(@, child)]

RECURSIVE build_layout_tree(_)
RECURSIVE build_children(_, _, _)
RECURSIVE build_children_adopting(_, _, _)

\* build_children that recurses into a display:none child like a block child
build_children_unskipped(box, children, i) ==
    IF i > Len(children) THEN box
    ELSE LET child == children[i]
             built == build_layout_tree(child)
         IN  IF built = Panic THEN Panic
             ELSE IF StyledNode_display(child) = "Inline"
             THEN build_children(push_inline(box, built), children, i + 1)
             ELSE build_children(push(box, built), children, i + 1)

\* build_children that drops a display:none child but not its children
build_children_adopting(box, children, i) ==
    IF i > Len(children) THEN box
    ELSE LET child == children[i]
             d == StyledNode_display(child)
         IN  IF d = "None"
             THEN LET adopted == build_children_adopting(box, child.children, 1)
                  IN  IF adopted = Panic THEN Panic
                      ELSE build_children_adopting(adopted, children, i + 1)
             ELSE LET built == build_layout_tree(child)
                  IN  IF built = Panic THEN Panic
                      ELSE IF d = "Block"
                      THEN build_children_adopting(push(box, built), children, i + 1)
                      ELSE build_children_adopting(push_inline(box, built), children, i + 1)

\* the loop of build_layout_tree over styled_node.children, from child i on
build_children(box, children, i) ==
    IF i > Len(children) THEN box
    ELSE LET child == children[i]
             d == StyledNode_display(child)
         IN  IF d = "None" THEN build_children(box, children, i + 1)
             ELSE LET built == build_layout_tree(child)
                  IN  IF built = Panic THEN Panic
                      ELSE IF d = "Block"
                      THEN build_children(push(box, built), children, i + 1)
                      ELSE build_children(push_inline(box, built), children, i + 1)

build_layout_tree(styled_node) ==
    LET d == StyledNode_display(styled_node)
    IN  IF d = "None" THEN Panic
        ELSE build_children(
                 LayoutBox_new(IF d = "Block" THEN BlockNode(styled_node.node)
                               ELSE InlineNode(styled_node.node)),
                 styled_node.children, 1)

\* a whole number of pixels as an f32 of the model: half pixels
Px(n) == 2 * n

\* Value::to_px: the number of a pixel length, 0 for any other value
to_px(value) == IF value[1] = "Length" /\ value[3] = "Px" THEN value[2] ELSE 0

Rect_expanded_by(self, edge) ==
    [x |-> self.x - edge.left,
     y |-> self.y - edge.top,
     width |-> self.width + edge.left + edge.right,
     height |-> self.height + edge.top + edge.bottom]

padding_box(self) == Rect_expanded_by(self.content, self.padding)
border_box(self) == Rect_expanded_by(padding_box(self), self.border)
margin_box(self) == Rect_expanded_by(border_box(self), self.margin)

\* a &StyledNode read: the styled node of the tree with that identity
StyledNodeAt(id) ==
    LET RECURSIVE find(_)
        find(n) == IF n.node = id THEN {n}
                   ELSE UNION {find(n.children[i]) : i \in 1..Len(n.children)}
    IN  CHOOSE n \in find(styled) : TRUE

\* LayoutBox::get_style_node. Its AnonymousBlock arm panics; layout calls it
\* on BlockNode boxes only.
get_style_node(self) == StyledNodeAt(self.box_type[2])

\* the (true, _, _) arm that lets the width go negative
width_auto_arm_unclamped(margin_left, margin_right, underflow) ==
    LET auto == Keyword("auto")
    IN  [width |-> Length(underflow, "Px"),
         margin_left |-> IF margin_left = auto THEN Length(0, "Px") ELSE margin_left,
         margin_right |-> IF margin_right = auto THEN Length(0, "Px") ELSE margin_right]

\* the (true, _, _) arm of calculate_block_width's match: width is auto
width_auto_arm(margin_left, margin_right, underflow) ==
    LET auto == Keyword("auto")
        margin_left1 == IF margin_left = auto THEN Length(0, "Px") ELSE margin_left
        margin_right1 == IF margin_right = auto THEN Length(0, "Px") ELSE margin_right
    IN  IF underflow >= 0
        THEN [width |-> Length(underflow, "Px"), margin_left |-> margin_left1,
              margin_right |-> margin_right1]
        ELSE [width |-> Length(0, "Px"), margin_left |-> margin_left1,
              margin_right |-> Length(to_px(margin_right1) + underflow, "Px")]

\* the over-constraint test left out: auto margins are never forced to zero
over_constrained_never(width, total, containing_block) == FALSE

\* the condition of calculate_block_width's over-constraint fixup
over_constrained(width, total, containing_block) ==
    width # Keyword("auto") /\ total > containing_block.content.width

calculate_block_width(self, containing_block) ==
    LET style == get_style_node(self)
        auto == Keyword("auto")
        declared == StyledNode_value(style, "width")
        width == IF declared = None THEN auto ELSE declared[1]
        zero == Length(0, "Px")
        margin_left == StyledNode_lookup(style, "margin-left", "margin", zero)
        margin_right == StyledNode_lookup(style, "margin-right", "margin", zero)
        border_left == StyledNode_lookup(style, "border-left-width", "border-width", zero)
        border_right == StyledNode_lookup(style, "border-right-width", "border-width", zero)
        padding_left == StyledNode_lookup(style, "padding-left", "padding", zero)
        padding_right == StyledNode_lookup(style, "padding-right", "padding", zero)
        total == to_px(margin_left) + to_px(margin_right) + to_px(border_left)
                 + to_px(border_right) + to_px(padding_left) + to_px(padding_right)
        over == over_constrained(width, total, containing_block)
        margin_left1 == IF over /\ margin_left = auto THEN zero ELSE margin_left
        margin_right1 == IF over /\ margin_right = auto THEN zero ELSE margin_right
        underflow == containing_block.content.width - total
        case == <<width = auto, margin_left1 = auto, margin_right1 = auto>>
        r == IF case = <<FALSE, FALSE, FALSE>>
             THEN [width |-> width, margin_left |-> margin_left1,
                   margin_right |-> Length(to_px(margin_right1) + underflow, "Px")]
             ELSE IF case = <<FALSE, FALSE, TRUE>>
             THEN [width |-> width, margin_left |-> margin_left1,
                   margin_right |-> Length(underflow, "Px")]
             ELSE IF case = <<FALSE, TRUE, FALSE>>
             THEN [width |-> width, margin_left |-> Length(underflow, "Px"),
                   margin_right |-> margin_right1]
             ELSE IF case = <<FALSE, TRUE, TRUE>>
             THEN [width |-> width, margin_left |-> Length(underflow \div 2, "Px"),
                   margin_right |-> Length(underflow \div 2, "Px")]
             ELSE width_auto_arm(margin_left1, margin_right1, underflow)
    IN  [self EXCEPT !.dimensions.content.width = to_px(r.width),
                     !.dimensions.padding.left = to_px(padding_left),
                     !.dimensions.padding.right = to_px(padding_right),
                     !.dimensions.margin.left = to_px(r.margin_left),
                     !.dimensions.margin.right = to_px(r.margin_right),
                     !.dimensions.border.left = to_px(border_left),
                     !.dimensions.border.right = to_px(border_right)]

calculate_block_position(self, containing_block) ==
    LET style == get_style_node(self)
        zero == Length(0, "Px")
        d == [self.dimensions EXCEPT
                 !.margin.top = to_px(StyledNode_lookup(style, "margin-top", "margin", zero)),
                 !.margin.bottom = to_px(StyledNode_lookup(style, "margin-bottom", "margin", zero)),
                 !.border.top = to_px(StyledNode_lookup(style, "border-top-width", "border-width", zero)),
                 !.border.bottom = to_px(StyledNode_lookup(style, "border-bottom-width", "border-width", zero)),
                 !.padding.top = to_px(StyledNode_lookup(style, "padding-top", "padding", zero)),
                 !.padding.bottom = to_px(StyledNode_lookup(style, "padding-bottom", "padding", zero))]
    IN  [self EXCEPT !.dimensions =
            [d EXCEPT !.content.x = containing_block.content.x
                                    + d.margin.left + d.border.left + d.padding.left,
                      !.content.y = containing_block.content.height
                                    + containing_block.content.y
                                    + d.margin.top + d.border.top + d.padding.top]]

calculate_block_height(self) ==
    LET h == StyledNode_value(get_style_node(self), "height")
    IN  IF h # None /\ h[1][1] = "Length" /\ h[1][3] = "Px"
        THEN [self EXCEPT !.dimensions.content.height = h[1][2]]
        ELSE self

RECURSIVE layout(_, _)
RECURSIVE layout_children_from(_, _)
RECURSIVE layout_children_flat(_, _)

\* the loop of layout_block_children without the running content.height
layout_children_flat(self, i) ==
    IF i > Len(self.children) THEN self
    ELSE LET child == layout(self.children[i], self.dimensions)
         IN  layout_children_flat([self EXCEPT !.children[i] = child], i + 1)

\* the loop of layout_block_children, from child i on
layout_children_from(self, i) ==
    IF i > Len(self.children) THEN self
    ELSE LET child == layout(self.children[i], self.dimensions)
         IN  layout_children_from(
                 [self EXCEPT !.children[i] = child,
                              !.dimensions.content.height =
                                  @ + margin_box(child.dimensions).height],
                 i + 1)

layout_block_children(self) == layout_children_from(self, 1)

layout_block(self, containing_block) ==
    calculate_block_height(
        layout_block_children(
            calculate_block_position(
                calculate_block_width(self, containing_block),
                containing_block)))

\* layout that treats an InlineNode like a BlockNode
layout_inline_as_block(self, containing_block) ==
    IF self.box_type[1] \in {"BlockNode", "InlineNode"}
    THEN layout_block(self, containing_block)
    ELSE self

layout(self, containing_block) ==
    IF self.box_type[1] = "BlockNode" THEN layout_block(self, containing_block)
    ELSE self

\* ------------------------------------------------------------------ inputs
\* The selectors p, .a.c and #b: one per component of a specificity
SelP == SimpleSelector(Some("p"), None, <<>>)
SelAC == SimpleSelector(None, None, <<"a", "c">>)
SelB == SimpleSelector(None, Some("b"), <<>>)
\* the universal selector *
SelAny == SimpleSelector(None, None, <<>>)

SelectorUniverse == {SelP, SelAC, SelB, SelAny}

\* every selector list, in source order, of 1..MaxSelectors selectors
SelectorLists == UNION {[1..k -> SelectorUniverse] : k \in 1..MaxSelectors}

CascadeSelectorLists ==
    {<<SelP>>, <<SelAC>>, <<SelB>>, <<SelAny>>, <<SelP, SelB>>}

PropertyNames == {"color", "width"}

DeclarationBlocks ==
    {<<Declaration("color", Keyword("red"))>>,
     <<Declaration("color", Keyword("blue"))>>,
     <<Declaration("width", Keyword("auto"))>>,
     <<Declaration("width", Length(600, "Px")), Declaration("color", Keyword("red"))>>}

ElementData(tag_name, attributes) ==
    [tag_name |-> tag_name, attributes |-> attributes]

\* <p id="b" class="a c">, <p class="a"> and <div id="b">
ElementSet ==
    {ElementData("p", HashMap_insert(HashMap_insert(HashMap_new, "id", "b"),
                                     "class", <<"a", "c">>)),
     ElementData("p", HashMap_insert(HashMap_new, "class", <<"a">>)),
     ElementData("div", HashMap_insert(HashMap_new, "id", "b"))}

\* ------------------------------------------------------------------ cascade
InitCascade ==
    /\ pc = "parse"
    /\ stylesheet = Stylesheet_new
    /\ elem = None
    /\ matched = <<>>
    /\ values = HashMap_new
    /\ styled = None
    /\ root = None
    /\ viewport = None

\* Parser::parse_rules: one more rule parsed and pushed
ParseRule(sources, blocks) ==
    /\ pc = "parse"
    /\ Len(stylesheet.rules) < MaxRules
    /\ \E source \in sources, declarations \in blocks :
           stylesheet' = [rules |-> Append(stylesheet.rules,
                                           parse_rule(source, declarations))]
    /\ UNCHANGED <<pc, elem, matched, values, styled, root, viewport>>

ParseSelectorsRule ==
    ParseRule(SelectorLists, {<<Declaration("color", Keyword("red"))>>})

ParseCascadeRule == ParseRule(CascadeSelectorLists, DeclarationBlocks)

MatchingRules ==
    /\ pc = "parse"
    /\ \E e \in ElementSet :
           /\ elem' = e
           /\ matched' = matching_rules(e, stylesheet)
    /\ pc' = "matched"
    /\ UNCHANGED <<stylesheet, values, styled, root, viewport>>

SpecifiedValues ==
    /\ pc = "parse"
    /\ \E e \in ElementSet :
           /\ elem' = e
           /\ values' = specified_values(e, stylesheet)
    /\ pc' = "specified"
    /\ UNCHANGED <<stylesheet, matched, styled, root, viewport>>

NextMatch == ParseSelectorsRule \/ MatchingRules

SpecMatch == InitCascade /\ [][NextMatch]_vars

NextCascade == ParseCascadeRule \/ MatchingRules \/ SpecifiedValues

SpecCascade == InitCascade /\ [][NextCascade]_vars

\* ------------------------------------------------------------------ C1
RuleMatches(e, rule) ==
    \E i \in 1..Len(rule.selectors) : matches(e, rule.selectors[i])

\* the highest specificity among the selectors of the rule that match e
RuleSpecificity(e, rule) ==
    LET S == {specificity(rule.selectors[i]) :
                  i \in {j \in 1..Len(rule.selectors) : matches(e, rule.selectors[j])}}
    IN  CHOOSE s \in S : \A t \in S : cmp(t, s) <= 0

Declares(rule, p) == \E i \in 1..Len(rule.declarations) : rule.declarations[i].name = p

DeclaredValue(rule, p) ==
    LET I == {i \in 1..Len(rule.declarations) : rule.declarations[i].name = p}
    IN  rule.declarations[CHOOSE i \in I : \A j \in I : j <= i].value

\* the rules that match the element and declare p
Candidates(p) ==
    {r \in 1..Len(stylesheet.rules) :
        RuleMatches(elem, stylesheet.rules[r]) /\ Declares(stylesheet.rules[r], p)}

\* r beats q: higher specificity, or the same and not earlier
Beats(r, q) ==
    LET c == cmp(RuleSpecificity(elem, stylesheet.rules[q]),
                 RuleSpecificity(elem, stylesheet.rules[r]))
    IN  c < 0 \/ (c = 0 /\ q <= r)

\* C1: specified_values maps each property to the value declared by the
\* matching rule of highest specificity, the later rule among equals, and
\* holds no property that no matching rule declares.
C1_Cascade ==
    pc = "specified" =>
        /\ DOMAIN values \subseteq PropertyNames
        /\ \A p \in PropertyNames :
               IF Candidates(p) = {} THEN p \notin DOMAIN values
               ELSE LET w == CHOOSE r \in Candidates(p) :
                                 \A q \in Candidates(p) : Beats(r, q)
                    IN  /\ p \in DOMAIN values
                        /\ values[p] = DeclaredValue(stylesheet.rules[w], p)

\* an earlier, more specific rule wins over a later one that declares another
\* value, and a property nobody declares is absent
C1_Witness ==
    /\ pc = "specified"
    /\ Len(stylesheet.rules) = 2
    /\ Candidates("color") = {1, 2}
    /\ cmp(RuleSpecificity(elem, stylesheet.rules[1]),
           RuleSpecificity(elem, stylesheet.rules[2])) = 1
    /\ DeclaredValue(stylesheet.rules[1], "color")
           # DeclaredValue(stylesheet.rules[2], "color")
    /\ values["color"] = DeclaredValue(stylesheet.rules[1], "color")
    /\ "width" \notin DOMAIN values

\* two rules of equal specificity: the later one's value is the result
C1_WitnessTie ==
    /\ pc = "specified"
    /\ Len(stylesheet.rules) = 2
    /\ Candidates("color") = {1, 2}
    /\ cmp(RuleSpecificity(elem, stylesheet.rules[1]),
           RuleSpecificity(elem, stylesheet.rules[2])) = 0
    /\ DeclaredValue(stylesheet.rules[1], "color")
           # DeclaredValue(stylesheet.rules[2], "color")
    /\ values["color"] = DeclaredValue(stylesheet.rules[2], "color")

\* ------------------------------------------------------------------ C9
MatchingSelectors(e, rule) ==
    {i \in 1..Len(rule.selectors) : matches(e, rule.selectors[i])}

\* C9: matching_rules lists, in stylesheet order and once each, exactly the
\* rules with a matching selector, each with the specificity of its first
\* matching selector, which is the highest among its matching selectors.
C9_MatchingRules ==
    pc = "matched" =>
        /\ \A i, j \in 1..Len(matched) : i < j => matched[i][2] < matched[j][2]
        /\ {matched[i][2] : i \in 1..Len(matched)}
               = {r \in 1..Len(stylesheet.rules) :
                      MatchingSelectors(elem, stylesheet.rules[r]) # {}}
        /\ \A i \in 1..Len(matched) :
               LET rule == stylesheet.rules[matched[i][2]]
                   M == MatchingSelectors(elem, rule)
                   first == CHOOSE k \in M : \A l \in M : k <= l
               IN  /\ matched[i][1] = specificity(rule.selectors[first])
                   /\ \A l \in M : cmp(specificity(rule.selectors[l]), matched[i][1]) <= 0

\* a rule with two matching selectors of different specificity is listed
\* after a rule that is left out because none of its selectors matches
C9_Witness ==
    /\ pc = "matched"
    /\ Len(stylesheet.rules) = 2
    /\ MatchingSelectors(elem, stylesheet.rules[1]) = {}
    /\ MatchingSelectors(elem, stylesheet.rules[2]) = {1, 2}
    /\ specificity(stylesheet.rules[2].selectors[1])
           # specificity(stylesheet.rules[2].selectors[2])
    /\ Len(matched) = 1
    /\ matched[1][2] = 2

\* ------------------------------------------------------------------ trees
\* the styled trees of exactly n nodes, numbered in document order from id
RECURSIVE StyledTrees(_, _, _)
RECURSIVE StyledForests(_, _, _)
StyledTrees(n, id, styles) ==
    {StyledNode(id, sv, f) : sv \in styles, f \in StyledForests(n - 1, id + 1, styles)}

StyledForests(n, id, styles) ==
    IF n = 0 THEN {<<>>}
    ELSE UNION {{<<t>> \o f : t \in StyledTrees(k, id, styles),
                              f \in StyledForests(n - k, id + k, styles)} : k \in 1..n}

DisplayStyles ==
    {HashMap_new,
     HashMap_insert(HashMap_new, "display", Keyword("inline")),
     HashMap_insert(HashMap_new, "display", Keyword("none"))}

\* ------------------------------------------------------------------ build
InitBuild ==
    /\ pc = "styled"
    /\ styled \in UNION {StyledTrees(n, 1, DisplayStyles) : n \in 1..MaxNodes}
    /\ stylesheet = Stylesheet_new
    /\ elem = None
    /\ matched = <<>>
    /\ values = HashMap_new
    /\ root = None
    /\ viewport = None

BuildLayoutTree ==
    /\ pc = "styled"
    /\ root' = build_layout_tree(styled)
    /\ pc' = IF root' = Panic THEN "panic" ELSE "built"
    /\ UNCHANGED <<stylesheet, elem, matched, values, styled, viewport>>

NextBuild == BuildLayoutTree

SpecBuild == InitBuild /\ [][NextBuild]_vars

\* ------------------------------------------------------------------ tree helpers
RECURSIVE Nodes(_)
\* every styled node of the tree
Nodes(n) == {n} \cup UNION {Nodes(n.children[i]) : i \in 1..Len(n.children)}

Ids(n) == {m.node : m \in Nodes(n)}

RECURSIVE Remove(_, _)
\* the styled tree without the subtree rooted at the node id
Remove(n, id) ==
    LET kept == SelectSeq(n.children, LAMBDA k : k.node # id)
    IN  [n EXCEPT !.children = [i \in 1..Len(kept) |-> Remove(kept[i], id)]]

RECURSIVE AllBoxes(_)
\* every box of the box tree
AllBoxes(b) == {b} \cup UNION {AllBoxes(b.children[i]) : i \in 1..Len(b.children)}

\* the styled nodes the boxes of the tree refer to
Refs(b) == {x.box_type[2] : x \in {y \in AllBoxes(b) : y.box_type # AnonymousBlock}}

Kinds(boxes) == [i \in 1..Len(boxes) |-> boxes[i].box_type[1]]

Displays(nodes) == [i \in 1..Len(nodes) |-> StyledNode_display(nodes[i])]

RECURSIVE Unwrapped(_)
\* the boxes of a child list with every anonymous wrapper replaced by its content
Unwrapped(boxes) ==
    IF boxes = <<>> THEN <<>>
    ELSE (IF Head(boxes).box_type = AnonymousBlock THEN Head(boxes).children
          ELSE <<Head(boxes)>>) \o Unwrapped(Tail(boxes))

\* ------------------------------------------------------------------ C2
\* C2: no box of a built tree has both a BlockNode and an InlineNode among
\* its direct children.
C2_NoMixedChildren ==
    pc = "built" =>
        \A b \in AllBoxes(root) :
            ~ /\ \E i \in 1..Len(b.children) : b.children[i].box_type[1] = "BlockNode"
              /\ \E i \in 1..Len(b.children) : b.children[i].box_type[1] = "InlineNode"

\* ------------------------------------------------------------------ C3
\* the children of the box of a block node group the node's displayed
\* children: blocks directly, each maximal run of inlines in one wrapper
Grouped(b) ==
    LET n == StyledNodeAt(b.box_type[2])
        shown == SelectSeq(n.children, LAMBDA k : StyledNode_display(k) # "None")
        flat == Unwrapped(b.children)
    IN  /\ \A i \in 1..Len(b.children) :
               LET c == b.children[i]
               IN  \/ c.box_type[1] = "BlockNode"
                   \/ /\ c.box_type = AnonymousBlock
                      /\ c.children # <<>>
                      /\ \A j \in 1..Len(c.children) : c.children[j].box_type[1] = "InlineNode"
                      /\ i > 1 => b.children[i - 1].box_type # AnonymousBlock
        /\ Len(flat) = Len(shown)
        /\ \A i \in 1..Len(flat) :
               flat[i].box_type = IF StyledNode_display(shown[i]) = "Block"
                                  THEN BlockNode(shown[i].node)
                                  ELSE InlineNode(shown[i].node)

\* C3: under a block node every maximal run of inline children sits, in
\* document order, in exactly one AnonymousBlock and every block child is a
\* direct BlockNode child; [inline, inline, block, inline] gives
\* [AnonymousBlock{2}, BlockNode, AnonymousBlock{1}].
C3_AnonymousWrapping ==
    pc = "built" =>
        /\ \A b \in AllBoxes(root) : b.box_type[1] = "BlockNode" => Grouped(b)
        /\ (/\ StyledNode_display(styled) = "Block"
            /\ Displays(styled.children) = <<"Inline", "Inline", "Block", "Inline">>)
           => /\ Kinds(root.children) = <<"AnonymousBlock", "BlockNode", "AnonymousBlock">>
              /\ Kinds(root.children[1].children) = <<"InlineNode", "InlineNode">>
              /\ Kinds(root.children[3].children) = <<"InlineNode">>

C3_Witness ==
    /\ pc = "built"
    /\ StyledNode_display(styled) = "Block"
    /\ Displays(styled.children) = <<"Inline", "Inline", "Block", "Inline">>
    /\ Len(root.children) = 3

\* ------------------------------------------------------------------ C4
\* C4: a display:none node below the root and its descendants are referred
\* to by no box, and the box tree is the one built without that subtree.
C4_NoneDropped ==
    pc = "built" =>
        \A n \in Nodes(styled) :
            (n.node # styled.node /\ StyledNode_display(n) = "None")
            => /\ Refs(root) \cap Ids(n) = {}
               /\ root = build_layout_tree(Remove(styled, n.node))

\* a display:none child with a displayed child of its own sits between two
\* inline siblings, which share one wrapper
C4_Witness ==
    /\ pc = "built"
    /\ StyledNode_display(styled) = "Block"
    /\ Displays(styled.children) = <<"Inline", "None", "Inline">>
    /\ Displays(styled.children[2].children) = <<"Block">>
    /\ Kinds(root.children) = <<"AnonymousBlock">>
    /\ Len(root.children[1].children) = 2

\* ------------------------------------------------------------------ C5
\* C5: build_layout_tree panics, returning no box tree, exactly when the
\* node it is called on has display none; display:none descendants never
\* make it panic.
C5_FatalRoot ==
    /\ pc = "panic" => (StyledNode_display(styled) = "None" /\ root = Panic)
    /\ pc = "built" => (StyledNode_display(styled) # "None" /\ root # Panic
                        /\ Panic \notin AllBoxes(root))

C5_Witness ==
    /\ pc = "panic"
    /\ StyledNode_display(styled) = "None"
    /\ styled.children # <<>>

\* a display:none descendant is skipped without a panic
C5_WitnessDescendant ==
    /\ pc = "built"
    /\ \E n \in Nodes(styled) : n.node # styled.node /\ StyledNode_display(n) = "None"

\* ------------------------------------------------------------------ layout
\* a property map from a sequence of <<name, value>> pairs
Style(pairs) ==
    LET RECURSIVE put(_, _)
        put(m, i) == IF i > Len(pairs) THEN m
                     ELSE put(HashMap_insert(m, pairs[i][1], pairs[i][2]), i + 1)
    IN  put(HashMap_new, 1)

LayoutStyles ==
    {Style(<<>>),
     Style(<<<<"display", Keyword("inline")>>>>),
     Style(<<<<"width", Length(Px(300), "Px")>>, <<"margin-left", Keyword("auto")>>,
             <<"margin-right", Keyword("auto")>>>>),
     Style(<<<<"margin-left", Keyword("auto")>>, <<"margin-right", Keyword("auto")>>,
             <<"padding-left", Length(Px(20), "Px")>>,
             <<"padding-right", Length(Px(20), "Px")>>>>),
     Style(<<<<"height", Length(Px(50), "Px")>>>>),
     Style(<<<<"height", Length(Px(30), "Px")>>>>),
     Style(<<<<"margin", Length(Px(10), "Px")>>, <<"border-width", Length(Px(2), "Px")>>,
             <<"padding-top", Length(Px(5), "Px")>>>>),
     Style(<<<<"width", Length(Px(300), "Px")>>, <<"margin-left", Keyword("auto")>>,
             <<"margin-right", Length(Px(20), "Px")>>>>),
     Style(<<<<"width", Length(Px(300), "Px")>>, <<"margin-right", Keyword("auto")>>,
             <<"padding-left", Length(Px(20), "Px")>>,
             <<"padding-right", Length(Px(20), "Px")>>>>)}

Viewport(x, y, width) ==
    [Dimensions_default EXCEPT !.content =
        [x |-> x, y |-> y, width |-> width, height |-> 0]]

Viewports == {Viewport(0, 0, Px(800)), Viewport(Px(8), Px(4), Px(30))}

InitLayout ==
    /\ pc = "styled"
    /\ styled \in UNION {StyledTrees(n, 1, LayoutStyles) : n \in 1..MaxLayoutNodes}
    /\ stylesheet = Stylesheet_new
    /\ elem = None
    /\ matched = <<>>
    /\ values = HashMap_new
    /\ root = None
    /\ viewport = None

\* the root box laid out in the viewport, once, on the freshly built tree
Layout ==
    /\ pc = "built"
    /\ \E v \in Viewports :
           /\ viewport' = v
           /\ root' = layout(root, v)
    /\ pc' = "laid"
    /\ UNCHANGED <<stylesheet, elem, matched, values, styled>>

NextLayout == BuildLayoutTree \/ Layout

SpecLayout == InitLayout /\ [][NextLayout]_vars

\* ------------------------------------------------------------------ layout helpers
RECURSIVE LaidOut(_, _)
\* the boxes layout_block ran on, each with its containing block's content
\* width: the root if it is a BlockNode, and the BlockNode children of those
LaidOut(b, width) ==
    IF b.box_type[1] # "BlockNode" THEN {}
    ELSE {<<b, width>>}
         \cup UNION {LaidOut(b.children[i], b.dimensions.content.width) :
                         i \in 1..Len(b.children)}

IsLength(v) == v # None /\ v[1][1] = "Length"

\* the style's six horizontal lengths other than the width, as pixel values
Horizontal(n) ==
    LET zero == Length(0, "Px")
    IN  [margin_left |-> to_px(StyledNode_lookup(n, "margin-left", "margin", zero)),
         margin_right |-> to_px(StyledNode_lookup(n, "margin-right", "margin", zero)),
         border |-> to_px(StyledNode_lookup(n, "border-left-width", "border-width", zero))
                    + to_px(StyledNode_lookup(n, "border-right-width", "border-width", zero)),
         padding |-> to_px(StyledNode_lookup(n, "padding-left", "padding", zero))
                     + to_px(StyledNode_lookup(n, "padding-right", "padding", zero))]

MarginIsAuto(n, name) ==
    StyledNode_lookup(n, name, "margin", Length(0, "Px")) = Keyword("auto")

WidthIsAuto(n) ==
    StyledNode_value(n, "width") \in {None, Some(Keyword("auto"))}

\* the height of the margin box, written out
MarginBoxHeight(d) ==
    d.content.height + d.padding.top + d.padding.bottom + d.border.top
    + d.border.bottom + d.margin.top + d.margin.bottom

RECURSIVE SumHeights(_, _)
\* the margin-box heights of the first k boxes, added up
SumHeights(boxes, k) ==
    IF k = 0 THEN 0
    ELSE SumHeights(boxes, k - 1) + MarginBoxHeight(boxes[k].dimensions)

\* ------------------------------------------------------------------ C6
\* C6: an explicit pixel width with both margins auto splits what the width,
\* borders and paddings leave of the containing width evenly between the two
\* margins: width 300px in 800 gives margins of 250 and 250.
C6_SplitMargins ==
    pc = "laid" =>
        \A p \in LaidOut(root, viewport.content.width) :
            LET b == p[1]
                n == StyledNodeAt(b.box_type[2])
                h == Horizontal(n)
                left_over == p[2] - to_px(StyledNode_value(n, "width")[1])
                             - h.border - h.padding
            IN  (/\ IsLength(StyledNode_value(n, "width"))
                 /\ MarginIsAuto(n, "margin-left")
                 /\ MarginIsAuto(n, "margin-right")
                 /\ left_over >= 0)
                => /\ 2 * b.dimensions.margin.left = left_over
                   /\ 2 * b.dimensions.margin.right = left_over

\* ------------------------------------------------------------------ C7
\* C7: with width auto every auto margin counts as 0; the content width is
\* the underflow (containing width minus margins, borders and paddings) when
\* that is not negative, else 0 with the underflow added to margin-right.
C7_AutoWidth ==
    pc = "laid" =>
        /\ \A p \in LaidOut(root, viewport.content.width) :
               LET d == p[1].dimensions
                   n == StyledNodeAt(p[1].box_type[2])
                   h == Horizontal(n)
                   underflow == p[2] - (h.margin_left + h.margin_right
                                        + h.border + h.padding)
               IN  WidthIsAuto(n)
                   => /\ d.margin.left = h.margin_left
                      /\ MarginIsAuto(n, "margin-left") => d.margin.left = 0
                      /\ IF underflow >= 0
                         THEN /\ d.content.width = underflow
                              /\ d.margin.right = h.margin_right
                              /\ MarginIsAuto(n, "margin-right") => d.margin.right = 0
                         ELSE /\ d.content.width = 0
                              /\ d.margin.right = h.margin_right + underflow
        /\ (root.box_type[1] = "BlockNode" /\ viewport.content.width = Px(800))
           => /\ styled.specified_values = Style(<<>>)
                 => root.dimensions.content.width = Px(800)
              /\ styled.specified_values =
                     Style(<<<<"margin-left", Keyword("auto")>>,
                             <<"margin-right", Keyword("auto")>>,
                             <<"padding-left", Length(Px(20), "Px")>>,
                             <<"padding-right", Length(Px(20), "Px")>>>>)
                 => /\ root.dimensions.content.width = Px(760)
                    /\ root.dimensions.margin.left = 0
                    /\ root.dimensions.margin.right = 0

\* width auto with auto margins and 20px paddings in a viewport of 30: the
\* underflow is negative
C7_Witness ==
    /\ pc = "laid"
    /\ viewport.content.width = Px(30)
    /\ root.box_type[1] = "BlockNode"
    /\ MarginIsAuto(styled, "margin-right")
    /\ Horizontal(styled).padding = Px(40)
    /\ root.dimensions.content.width = 0
    /\ root.dimensions.margin.right = 0 - Px(10)

\* the fill case in a viewport of 800
C7_WitnessFill ==
    /\ pc = "laid"
    /\ viewport.content.width = Px(800)
    /\ MarginIsAuto(styled, "margin-left")
    /\ root.dimensions.content.width = Px(760)

\* ------------------------------------------------------------------ C8
HasExplicitHeight(n) ==
    LET h == StyledNode_value(n, "height")
    IN  h # None /\ h[1][1] = "Length"

\* C8: the BlockNode children of a laid out block without explicit height
\* are stacked: each one's content.y is the parent's content.y plus the
\* margin-box heights of the children before it plus its own top margin,
\* border and padding, and the parent's content.height is the sum of the
\* margin-box heights of all its children.
C8_Stacking ==
    pc = "laid" =>
        \A p \in LaidOut(root, viewport.content.width) :
            LET b == p[1]
            IN  ~ HasExplicitHeight(StyledNodeAt(b.box_type[2]))
                => /\ b.dimensions.content.height = SumHeights(b.children, Len(b.children))
                   /\ \A k \in 1..Len(b.children) :
                          LET c == b.children[k].dimensions
                          IN  b.children[k].box_type[1] = "BlockNode"
                              => c.content.y = b.dimensions.content.y
                                               + SumHeights(b.children, k - 1)
                                               + c.margin.top + c.border.top + c.padding.top

\* children of heights 50 and 30 in a parent at (0, 0)
C8_Witness ==
    /\ pc = "laid"
    /\ viewport.content.y = 0
    /\ styled.specified_values = Style(<<>>)
    /\ Len(styled.children) = 2
    /\ styled.children[1].specified_values = Style(<<<<"height", Length(Px(50), "Px")>>>>)
    /\ styled.children[2].specified_values = Style(<<<<"height", Length(Px(30), "Px")>>>>)
    /\ root.children[1].dimensions.content.y = 0
    /\ root.children[2].dimensions.content.y = Px(50)
    /\ root.dimensions.content.height = Px(80)

\* ------------------------------------------------------------------ C10
RECURSIVE Untouched(_, _)
\* b is the laid out box and fresh the same box as build_layout_tree made it:
\* below and at every InlineNode and AnonymousBlock nothing has changed
Untouched(b, fresh) ==
    IF b.box_type[1] = "BlockNode"
    THEN /\ Len(b.children) = Len(fresh.children)
         /\ \A i \in 1..Len(b.children) : Untouched(b.children[i], fresh.children[i])
    ELSE /\ b = fresh
         /\ \A x \in AllBoxes(b) : x.dimensions = Dimensions_default

RECURSIVE SumBlockHeights(_, _)
\* the margin-box heights of the BlockNode boxes among the first k boxes
SumBlockHeights(boxes, k) ==
    IF k = 0 THEN 0
    ELSE SumBlockHeights(boxes, k - 1)
         + (IF boxes[k].box_type[1] = "BlockNode"
            THEN MarginBoxHeight(boxes[k].dimensions) ELSE 0)

\* C10: layout leaves an InlineNode or AnonymousBlock box and its whole
\* subtree as built, all dimensions zero, and such a child adds nothing to
\* the content.height its parent accumulates.
C10_InlineNoop ==
    pc = "laid" =>
        /\ Untouched(root, build_layout_tree(styled))
        /\ \A p \in LaidOut(root, viewport.content.width) :
               ~ HasExplicitHeight(StyledNodeAt(p[1].box_type[2]))
               => p[1].dimensions.content.height
                      = SumBlockHeights(p[1].children, Len(p[1].children))

\* a BlockNode of height 50px inside an InlineNode inside the wrapper of the
\* root: it keeps height 0 and the root accumulates 0
C10_Witness ==
    /\ pc = "laid"
    /\ Kinds(root.children) = <<"AnonymousBlock">>
    /\ Kinds(root.children[1].children) = <<"InlineNode">>
    /\ Kinds(root.children[1].children[1].children) = <<"BlockNode">>
    /\ HasExplicitHeight(styled.children[1].children[1])
    /\ root.children[1].children[1].children[1].dimensions = Dimensions_default
    /\ root.dimensions.content.height = 0
    /\ root.dimensions.content.width > 0

\* ------------------------------------------------------------------ C11
RECURSIVE DeclaredLengths(_)
\* the numbers of the lengths declared anywhere in a styled tree
DeclaredLengths(n) ==
    {n.specified_values[k][2] :
         k \in {j \in DOMAIN n.specified_values : n.specified_values[j][1] = "Length"}}
    \cup UNION {DeclaredLengths(n.children[i]) : i \in 1..Len(n.children)}

\* what the claim assumes of the input: no negative viewport width (lengths
\* parse from digits and dots only, Parser::parse_float)
NonNegativeInput ==
    /\ viewport.content.width >= 0
    /\ \A v \in DeclaredLengths(styled) : v >= 0

\* C11: with a viewport of non-negative width and non-negative declared
\* lengths, every laid out BlockNode box has content.width >= 0 and
\* margin.left >= 0 (and non-negative horizontal borders and paddings):
\* of the horizontal sizes only margin.right can be negative.
C11_NonNegativeWidth ==
    (pc = "laid" /\ NonNegativeInput) =>
        \A p \in LaidOut(root, viewport.content.width) :
            LET d == p[1].dimensions
            IN  /\ p[2] >= 0
                /\ d.content.width >= 0
                /\ d.margin.left >= 0
                /\ d.padding.left >= 0 /\ d.padding.right >= 0
                /\ d.border.left >= 0 /\ d.border.right >= 0

\* an explicit width with margin-left auto whose other horizontal sizes
\* exceed the containing width: the fixup keeps margin-left at 0; and a box,
\* in the same tree, whose margin.right went negative
C11_Witness ==
    /\ pc = "laid"
    /\ NonNegativeInput
    /\ \E p \in LaidOut(root, viewport.content.width) :
           LET n == StyledNodeAt(p[1].box_type[2])
               h == Horizontal(n)
           IN  /\ IsLength(StyledNode_value(n, "width"))
               /\ MarginIsAuto(n, "margin-left")
               /\ h.margin_left + h.margin_right + h.border + h.padding > p[2]
               /\ p[1].dimensions.margin.left = 0
    /\ \E p \in LaidOut(root, viewport.content.width) :
           p[1].dimensions.margin.right < 0

=============================================================================
